---- MODULE Spec2Model ----
(***************************************************************************)
(* Model of Silicon/Sophgo/SG2042Pkg/Sec/Platform.c: the SEC phase entry   *)
(* PlatformPeimInitialization, which relocates the flattened device tree   *)
(* (FDT), announces it through a GUID HOB, announces the DXE firmware      *)
(* volume, and publishes memory-mapped I/O resource descriptor HOBs for    *)
(* the nodes matching two compatible strings.                              *)
(*                                                                         *)
(* A UINT64 is a tuple of 8 bytes, most significant byte first (TLC's      *)
(* integers are 32 bits wide).  A word stored in the tree is the tuple of  *)
(* its 8 bytes in address order.  Node offsets are 0-based node indices.   *)
(***************************************************************************)
EXTENDS Integers, Sequences, FiniteSets, TLC

(***************************************************************************)
(* Bounds of the model.                                                    *)
(***************************************************************************)
MaxNodes == 2
MaxRestarts == 1

(***************************************************************************)
(* Program constants.                                                      *)
(***************************************************************************)
EFI_PAGE_SIZE == 4096
SizeofUint64 == 8
FDT_ERR_NOTFOUND == 1
FDT_ERR_BADOFFSET == 4
FDT_ERR_TRUNCATED == 8
FDT_ERR_BADMAGIC == 9
FDT_ERR_BADVERSION == 10
FDT_ERR_BADSTRUCTURE == 11
FDT_ERR_NOSPACE == 3
FDT_FIRST_SUPPORTED_VERSION == 2
FDT_LAST_SUPPORTED_VERSION == 17
FDT_V17_SIZE == 40
NULL == 0
OrigBase == 1
PoolBase == 2

FDT_MAGIC == <<208, 13, 254, 237>>
EFI_SUCCESS == "EFI_SUCCESS"
EFI_UNSUPPORTED == "EFI_UNSUPPORTED"
NoStatus == "running"
PcieCompatible == "sophgo,cdns-pcie-host"
SdCompatible == "bitmain,bm-sd"
OtherCompatible == "sophgo,other"
NoCompatible == ""
MmioAttributes ==
  {"PRESENT", "INITIALIZED", "UNCACHEABLE", "TESTED"}
FixedBase == <<0, 0, 0, 0, 192, 0, 0, 0>>
FixedSize == <<0, 0, 0, 0, 64, 0, 0, 0>>

(***************************************************************************)
(* 64-bit arithmetic on byte tuples.                                       *)
(***************************************************************************)
ReadUint64(mem) == [i \in 1..8 |-> mem[9 - i]]

\* Mutation: the word is used as read, without the byte swap.
SwapBytes64_Identity(Value) == Value

SwapBytes64(Value) == [i \in 1..8 |-> Value[9 - i]]

RECURSIVE AddCarry(_, _, _)
AddCarry(Value, i, Carry) ==
  IF i = 0 THEN Value
  ELSE LET s == Value[i] + Carry
       IN  AddCarry([Value EXCEPT ![i] = s % 256], i - 1, s \div 256)

AddUint64(Value, Small) == AddCarry(Value, 8, Small)

Low16(Value) == Value[7] * 256 + Value[8]

ALIGN_VALUE(Value, Alignment) ==
  AddUint64(Value, (Alignment - (Low16(Value) % Alignment)) % Alignment)

EFI_SIZE_TO_PAGES(Size) ==
  (Size \div EFI_PAGE_SIZE) + (IF Size % EFI_PAGE_SIZE # 0 THEN 1 ELSE 0)

EFI_PAGES_TO_SIZE(Pages) == Pages * EFI_PAGE_SIZE

(***************************************************************************)
(* The record store (HOB list).                                            *)
(***************************************************************************)
ResourceDescriptorHob(ResourceType, Attributes, PhysicalStart, NumberOfBytes) ==
  [type |-> "RESOURCE_DESCRIPTOR", ResourceType |-> ResourceType,
   Attributes |-> Attributes, PhysicalStart |-> PhysicalStart,
   ResourceLength |-> NumberOfBytes]

GuidHob(Guid, Data) == [type |-> "GUID_EXTENSION", Name |-> Guid, Data |-> Data]

FvHob(BaseAddress, Length) ==
  [type |-> "FV", BaseAddress |-> BaseAddress, Length |-> Length]

\* Mutation: the record is put in front of the list.
AddIoMemoryBaseSizeHob_Prepend(store, MemoryBase, MemorySize) ==
  <<ResourceDescriptorHob("EFI_RESOURCE_MEMORY_MAPPED_IO", MmioAttributes,
                          MemoryBase,
                          ALIGN_VALUE(MemorySize, EFI_PAGE_SIZE))>> \o store

AddIoMemoryBaseSizeHob(store, MemoryBase, MemorySize) ==
  Append(store,
         ResourceDescriptorHob("EFI_RESOURCE_MEMORY_MAPPED_IO", MmioAttributes,
                               MemoryBase,
                               ALIGN_VALUE(MemorySize, EFI_PAGE_SIZE)))

(***************************************************************************)
(* libfdt, as far as Platform.c uses it.                                   *)
(***************************************************************************)
fdt_check_header(fdt) ==
  LET h == fdt.header
  IN  IF h.magic # FDT_MAGIC THEN 0 - FDT_ERR_BADMAGIC
      ELSE IF h.version < FDT_FIRST_SUPPORTED_VERSION
             \/ h.last_comp_version > FDT_LAST_SUPPORTED_VERSION
             \/ h.version < h.last_comp_version
           THEN 0 - FDT_ERR_BADVERSION
      ELSE IF h.totalsize < FDT_V17_SIZE THEN 0 - FDT_ERR_TRUNCATED
      ELSE 0

fdt_totalsize(fdt) == fdt.header.totalsize

Min(S) == CHOOSE x \in S : \A y \in S : x <= y

\* A negative start offset makes fdt_next_node walk from the first node;
\* the walk past the last readable node ends with -endErr.
fdt_node_offset_by_compatible(fdt, startoffset, compatible) ==
  LET from == IF startoffset < 0 THEN 0 ELSE startoffset + 1
      hits == {o \in from .. (Len(fdt.nodes) - 1) :
                 compatible \in fdt.nodes[o + 1].compatible}
  IN  IF hits # {} THEN Min(hits) ELSE 0 - fdt.endErr

fdt_getprop(fdt, nodeoffset) ==
  IF nodeoffset < 0
  THEN [found |-> FALSE, val |-> <<>>, len |-> 0 - FDT_ERR_BADOFFSET]
  ELSE LET r == fdt.nodes[nodeoffset + 1].reg
       IN  IF r.present
           THEN [found |-> TRUE, val |-> r.words,
                 len |-> SizeofUint64 * Len(r.words)]
           ELSE [found |-> FALSE, val |-> <<>>, len |-> 0 - FDT_ERR_NOTFOUND]

(***************************************************************************)
(* Inputs: the trees handed over by the previous boot stage.               *)
(***************************************************************************)
W_4000000000 == <<0, 0, 0, 64, 0, 0, 0, 0>>
W_10000000 == <<0, 0, 0, 0, 16, 0, 0, 0>>
W_5000000000 == <<0, 0, 0, 80, 0, 0, 0, 0>>
W_1000000 == <<0, 0, 0, 0, 1, 0, 0, 0>>
W_6000000000 == <<0, 0, 0, 96, 0, 0, 0, 0>>
W_1000 == <<0, 0, 0, 0, 0, 0, 16, 0>>
W_7000000000 == <<0, 0, 0, 112, 0, 0, 0, 0>>
W_1001 == <<0, 0, 0, 0, 0, 0, 16, 1>>
W_7040000000 == <<0, 0, 0, 112, 64, 0, 0, 0>>
W_FFFFFFFFFFFFF001 == <<255, 255, 255, 255, 255, 255, 240, 1>>

RegAbsent == [present |-> FALSE, words |-> <<>>]
RegOf(words) == [present |-> TRUE, words |-> words]

RegChoices ==
  { RegAbsent,
    RegOf(<<W_7000000000>>),
    RegOf(<<W_6000000000, W_1000>>),
    RegOf(<<W_7000000000, W_1001>>),
    RegOf(<<W_7040000000, W_FFFFFFFFFFFFF001>>),
    RegOf(<<W_7000000000, W_1001, W_7040000000>>),
    RegOf(<<W_4000000000, W_10000000, W_5000000000, W_1000000>>),
    RegOf(<<W_4000000000, W_1001, W_5000000000, W_1000, W_7040000000>>) }

SdRegChoices ==
  { RegAbsent,
    RegOf(<<W_6000000000, W_1000>>),
    RegOf(<<W_7000000000, W_1001, W_7040000000>>),
    RegOf(<<W_4000000000, W_1001, W_5000000000, W_1000, W_7040000000>>) }

NodeChoices ==
  [compatible : {{PcieCompatible}}, reg : RegChoices]
  \cup [compatible : {{SdCompatible}}, reg : SdRegChoices]
  \cup {[compatible |-> {OtherCompatible},
         reg |-> RegOf(<<W_7000000000, W_1001>>)],
        [compatible |-> {PcieCompatible, SdCompatible},
         reg |-> RegOf(<<W_6000000000, W_1000>>)]}

TreesUpTo(n) == UNION {[1..k -> NodeChoices] : k \in 0..n}

\* Bytes that follow a short reg property in the structure block:
\* FDT_END_NODE then FDT_END, or FDT_PROP then a length of 8.
OobWords == {<<0, 0, 0, 2, 0, 0, 0, 9>>, <<0, 0, 0, 3, 0, 0, 0, 8>>}

GoodHeader(totalsize) ==
  [magic |-> FDT_MAGIC, version |-> 17, last_comp_version |-> 16,
   totalsize |-> totalsize]

TotalSizes == {72, 4095, 4096, 4097, 8192, 12289}

HeaderChoices ==
  {GoodHeader(t) : t \in TotalSizes}
  \cup {[GoodHeader(4096) EXCEPT !.magic = <<0, 0, 0, 0>>],
        [GoodHeader(4096) EXCEPT !.version = 1],
        [GoodHeader(4096) EXCEPT !.last_comp_version = 18],
        GoodHeader(16)}

EndErrs == {FDT_ERR_NOTFOUND, FDT_ERR_BADSTRUCTURE}

FdtInputs ==
  [header : HeaderChoices, nodes : TreesUpTo(1), endErr : EndErrs]
  \cup [header : {GoodHeader(4097)}, nodes : TreesUpTo(MaxNodes),
        endErr : EndErrs]

NoFdt == [header |-> GoodHeader(0), nodes |-> <<>>, endErr |-> FDT_ERR_NOTFOUND]
NoBuffer == [state |-> "none", totalsize |-> 0, nodes |-> <<>>]

(***************************************************************************)
(* State.                                                                  *)
(***************************************************************************)
VARIABLES
  DeviceTreeAddress,  \* argument of PlatformPeimInitialization
  Fdt,                \* contents of the buffer at DeviceTreeAddress
  pc,                 \* position in PlatformPeimInitialization
  Status,             \* its return value
  FdtSize, FdtPages, NewBase,   \* its locals
  NewFdt,             \* contents of the allocation at NewBase
  pool,               \* pages handed out by AllocatePages
  hobs,               \* the HOB list
  Compatible, Node,   \* argument and local of PopulateIoResources
  restarts,           \* lookups that walked again from the first node
  calls               \* arguments of the calls of AddIoMemoryBaseSizeHob

vars == <<DeviceTreeAddress, Fdt, pc, Status, FdtSize, FdtPages, NewBase,
          NewFdt, pool, hobs, Compatible, Node, restarts, calls>>

Init ==
  /\ \/ DeviceTreeAddress = NULL /\ Fdt = NoFdt
     \/ DeviceTreeAddress = OrigBase /\ Fdt \in FdtInputs
  /\ pc = "NotStarted"
  /\ Status = NoStatus
  /\ FdtSize = 0
  /\ FdtPages = 0
  /\ NewBase = NULL
  /\ NewFdt = NoBuffer
  /\ pool = <<>>
  /\ hobs = <<>>
  /\ Compatible = NoCompatible
  /\ Node = 0
  /\ restarts = 0
  /\ calls = <<>>

(***************************************************************************)
(* PlatformPeimInitialization, lines 113-143.                              *)
(***************************************************************************)
Fail ==
  /\ Status' = EFI_UNSUPPORTED
  /\ pc' = "Failed"

CheckPointer ==
  /\ pc = "NotStarted"
  /\ IF DeviceTreeAddress = NULL
     THEN Fail
     ELSE pc' = "CheckHeader" /\ UNCHANGED Status
  /\ UNCHANGED <<DeviceTreeAddress, Fdt, FdtSize, FdtPages, NewBase, NewFdt,
                 pool, hobs, Compatible, Node, restarts, calls>>

\* Mutation: the return after a failed header check is missing.
CheckHeader_NoReturn ==
  /\ pc = "CheckHeader"
  /\ pc' = "Allocate"
  /\ UNCHANGED <<DeviceTreeAddress, Fdt, Status, FdtSize, FdtPages, NewBase,
                 NewFdt, pool, hobs, Compatible, Node, restarts, calls>>

CheckHeader ==
  /\ pc = "CheckHeader"
  /\ IF fdt_check_header(Fdt) # 0
     THEN Fail
     ELSE pc' = "Allocate" /\ UNCHANGED Status
  /\ UNCHANGED <<DeviceTreeAddress, Fdt, FdtSize, FdtPages, NewBase, NewFdt,
                 pool, hobs, Compatible, Node, restarts, calls>>

\* AllocatePages returns NULL, or the base of fresh pages.
AllocatePages(Pages) ==
  {[base |-> NULL, pool |-> pool],
   [base |-> PoolBase + Len(pool),
    pool |-> Append(pool, [base |-> PoolBase + Len(pool), pages |-> Pages])]}

Allocate ==
  /\ pc = "Allocate"
  /\ FdtSize' = fdt_totalsize(Fdt)
  /\ FdtPages' = EFI_SIZE_TO_PAGES(FdtSize')
  /\ \E a \in AllocatePages(FdtPages') :
       /\ NewBase' = a.base
       /\ pool' = a.pool
       /\ IF a.base = NULL
          THEN Fail /\ UNCHANGED NewFdt
          ELSE /\ pc' = "OpenInto"
               /\ NewFdt' = [NoBuffer EXCEPT !.state = "uninitialized"]
               /\ UNCHANGED Status
  /\ UNCHANGED <<DeviceTreeAddress, Fdt, hobs, Compatible, Node, restarts, calls>>

\* fdt_open_into copies the tree into buf and declares bufsize as its total
\* size, or reports an error and leaves buf undefined.
fdt_open_into(fdt, bufsize) ==
  {[err |-> 0,
    buf |-> [state |-> "tree", totalsize |-> bufsize, nodes |-> fdt.nodes]],
   [err |-> 0 - FDT_ERR_NOSPACE,
    buf |-> [state |-> "undefined", totalsize |-> 0, nodes |-> <<>>]]}

\* Mutation: the copy is given the tree's own size as its capacity.
OpenInto_DeclaresFdtSize ==
  /\ pc = "OpenInto"
  /\ \E r \in fdt_open_into(Fdt, FdtSize) : NewFdt' = r.buf
  /\ pc' = "BuildGuidHob"
  /\ UNCHANGED <<DeviceTreeAddress, Fdt, Status, FdtSize, FdtPages, NewBase,
                 pool, hobs, Compatible, Node, restarts, calls>>

\* Mutation: the tree is opened in place, in the buffer handed in.
OpenInto_InPlace ==
  /\ pc = "OpenInto"
  /\ \E r \in fdt_open_into(Fdt, EFI_PAGES_TO_SIZE(FdtPages)) :
       /\ NewFdt' = r.buf
       /\ Fdt' = [Fdt EXCEPT !.header.totalsize = r.buf.totalsize]
  /\ pc' = "BuildGuidHob"
  /\ UNCHANGED <<DeviceTreeAddress, Status, FdtSize, FdtPages, NewBase,
                 pool, hobs, Compatible, Node, restarts, calls>>

OpenInto ==
  /\ pc = "OpenInto"
  /\ \E r \in fdt_open_into(Fdt, EFI_PAGES_TO_SIZE(FdtPages)) :
       NewFdt' = r.buf
  /\ pc' = "BuildGuidHob"
  /\ UNCHANGED <<DeviceTreeAddress, Fdt, Status, FdtSize, FdtPages, NewBase,
                 pool, hobs, Compatible, Node, restarts, calls>>

\* Mutation: the firmware-volume HOB is built before the NULL check.
BuildGuidHob_FvBeforeCheck ==
  /\ pc = "BuildGuidHob"
  /\ \/ /\ hobs' = Append(hobs, GuidHob("gFdtHobGuid", NewBase))
        /\ pc' = "BuildFvHob"
        /\ UNCHANGED Status
     \/ /\ Fail
        /\ hobs' = Append(hobs, FvHob("PcdRiscVDxeFvBase", "PcdRiscVDxeFvSize"))
  /\ UNCHANGED <<DeviceTreeAddress, Fdt, FdtSize, FdtPages, NewBase, NewFdt,
                 pool, Compatible, Node, restarts, calls>>

\* Mutation: the HOB announces the pointer handed in, not the allocation.
BuildGuidHob_AnnouncesOriginal ==
  /\ pc = "BuildGuidHob"
  /\ \/ /\ hobs' = Append(hobs, GuidHob("gFdtHobGuid", DeviceTreeAddress))
        /\ pc' = "BuildFvHob"
        /\ UNCHANGED Status
     \/ /\ Fail
        /\ UNCHANGED hobs
  /\ UNCHANGED <<DeviceTreeAddress, Fdt, FdtSize, FdtPages, NewBase, NewFdt,
                 pool, Compatible, Node, restarts, calls>>

BuildGuidHob ==
  /\ pc = "BuildGuidHob"
  /\ \/ /\ hobs' = Append(hobs, GuidHob("gFdtHobGuid", NewBase))
        /\ pc' = "BuildFvHob"
        /\ UNCHANGED Status
     \/ /\ Fail
        /\ UNCHANGED hobs
  /\ UNCHANGED <<DeviceTreeAddress, Fdt, FdtSize, FdtPages, NewBase, NewFdt,
                 pool, Compatible, Node, restarts, calls>>

BuildFvHob ==
  /\ pc = "BuildFvHob"
  /\ hobs' = Append(hobs, FvHob("PcdRiscVDxeFvBase", "PcdRiscVDxeFvSize"))
  /\ pc' = "ScanPcie"
  /\ UNCHANGED <<DeviceTreeAddress, Fdt, Status, FdtSize, FdtPages, NewBase,
                 NewFdt, pool, Compatible, Node, restarts, calls>>

(***************************************************************************)
(* PopulateIoResources, lines 57-94.                                       *)
(***************************************************************************)
PopulateEnter(at, compatible) ==
  /\ pc = at
  /\ Compatible' = compatible
  /\ Node' = fdt_node_offset_by_compatible(Fdt, -1, compatible)
  /\ pc' = "Loop"
  /\ UNCHANGED <<DeviceTreeAddress, Fdt, Status, FdtSize, FdtPages, NewBase,
                 NewFdt, pool, hobs, restarts, calls>>

ScanPcie == PopulateEnter("ScanPcie", PcieCompatible)

ScanSd == PopulateEnter("ScanSd", SdCompatible)

\* Mutation: the NULL check of Reg is missing.
RegFound_Always(p) == TRUE

RegFound(p) == p.found

\* Mutation: the second region is taken only from a longer property.
HasSecondRegion_Longer(LenP) == LenP > 4 * SizeofUint64

HasSecondRegion(LenP) == LenP > 2 * SizeofUint64

\* Reg[i]: a word of the property, or the bytes behind it (oob) when the
\* property is shorter.
RegWord(p, i, oob) ==
  IF i < Len(p.val) THEN ReadUint64(p.val[i + 1]) ELSE ReadUint64(oob)

\* The (MemoryBase, MemorySize) pairs one loop iteration passes on.
RegPairs(p, oob) ==
  IF RegFound(p)
  THEN <<[MemoryBase |-> SwapBytes64(RegWord(p, 0, oob)),
          MemorySize |-> SwapBytes64(RegWord(p, 1, oob))]>>
       \o (IF HasSecondRegion(p.len)
           THEN <<[MemoryBase |-> SwapBytes64(RegWord(p, 2, oob)),
                   MemorySize |-> SwapBytes64(RegWord(p, 3, oob))]>>
           ELSE <<>>)
  ELSE <<>>

\* One call of AddIoMemoryBaseSizeHob on st = [hobs, calls]; the call and
\* the length of the HOB list before and after it are logged in calls.
CallAddIoMemoryBaseSizeHob(st, compatible, node, MemoryBase, MemorySize) ==
  LET store == AddIoMemoryBaseSizeHob(st.hobs, MemoryBase, MemorySize)
  IN  [hobs |-> store,
       calls |-> Append(st.calls,
                        [Compatible |-> compatible, Node |-> node,
                         MemoryBase |-> MemoryBase, MemorySize |-> MemorySize,
                         before |-> Len(st.hobs), after |-> Len(store)])]

\* Mutation: a window already in the HOB list is not added again.
RECURSIVE AddAll_SkipKnown(_, _, _, _)
AddAll_SkipKnown(st, compatible, node, pairs) ==
  IF pairs = <<>> THEN st
  ELSE LET next == CallAddIoMemoryBaseSizeHob(st, compatible, node,
                                              Head(pairs).MemoryBase,
                                              Head(pairs).MemorySize)
           known == \E i \in 1..Len(st.hobs) :
                      st.hobs[i] = next.hobs[Len(next.hobs)]
       IN  AddAll_SkipKnown(IF known THEN st ELSE next,
                            compatible, node, Tail(pairs))

RECURSIVE AddAll(_, _, _, _)
AddAll(st, compatible, node, pairs) ==
  IF pairs = <<>> THEN st
  ELSE AddAll(CallAddIoMemoryBaseSizeHob(st, compatible, node,
                                         Head(pairs).MemoryBase,
                                         Head(pairs).MemorySize),
              compatible, node, Tail(pairs))

LoopBody ==
  /\ pc = "Loop"
  /\ Node # 0 - FDT_ERR_NOTFOUND
  /\ Node >= 0 \/ restarts < MaxRestarts
  /\ restarts' = IF Node < 0 THEN restarts + 1 ELSE restarts
  /\ \E oob \in OobWords :
       LET st == AddAll([hobs |-> hobs, calls |-> calls], Compatible, Node,
                        RegPairs(fdt_getprop(Fdt, Node), oob))
       IN  /\ hobs' = st.hobs
           /\ calls' = st.calls
  /\ Node' = fdt_node_offset_by_compatible(Fdt, Node, Compatible)
  /\ UNCHANGED <<DeviceTreeAddress, Fdt, pc, Status, FdtSize, FdtPages,
                 NewBase, NewFdt, pool, Compatible>>

LoopExit ==
  /\ pc = "Loop"
  /\ Node = 0 - FDT_ERR_NOTFOUND
  /\ pc' = IF Compatible = PcieCompatible THEN "AddFixed" ELSE "Return"
  /\ UNCHANGED <<DeviceTreeAddress, Fdt, Status, FdtSize, FdtPages, NewBase,
                 NewFdt, pool, hobs, Compatible, Node, restarts, calls>>

(***************************************************************************)
(* PlatformPeimInitialization, lines 145-160.                              *)
(***************************************************************************)
\* Mutation: base and size of the fixed window are passed in swapped order.
AddFixed_Swapped ==
  /\ pc = "AddFixed"
  /\ LET st == CallAddIoMemoryBaseSizeHob([hobs |-> hobs, calls |-> calls],
                                          NoCompatible, -1,
                                          FixedSize, FixedBase)
     IN  /\ hobs' = st.hobs
         /\ calls' = st.calls
  /\ pc' = "ScanSd"
  /\ UNCHANGED <<DeviceTreeAddress, Fdt, Status, FdtSize, FdtPages, NewBase,
                 NewFdt, pool, Compatible, Node, restarts>>

\* Mutation: the fixed window is added only when the host-bridge scan
\* emitted a record.
AddFixed_OnlyAfterPcie ==
  /\ pc = "AddFixed"
  /\ LET st == IF calls = <<>>
               THEN [hobs |-> hobs, calls |-> calls]
               ELSE CallAddIoMemoryBaseSizeHob(
                      [hobs |-> hobs, calls |-> calls], NoCompatible, -1,
                      FixedBase, FixedSize)
     IN  /\ hobs' = st.hobs
         /\ calls' = st.calls
  /\ pc' = "ScanSd"
  /\ UNCHANGED <<DeviceTreeAddress, Fdt, Status, FdtSize, FdtPages, NewBase,
                 NewFdt, pool, Compatible, Node, restarts>>

AddFixed ==
  /\ pc = "AddFixed"
  /\ LET st == CallAddIoMemoryBaseSizeHob([hobs |-> hobs, calls |-> calls],
                                          NoCompatible, -1,
                                          FixedBase, FixedSize)
     IN  /\ hobs' = st.hobs
         /\ calls' = st.calls
  /\ pc' = "ScanSd"
  /\ UNCHANGED <<DeviceTreeAddress, Fdt, Status, FdtSize, FdtPages, NewBase,
                 NewFdt, pool, Compatible, Node, restarts>>

Return ==
  /\ pc = "Return"
  /\ Status' = EFI_SUCCESS
  /\ pc' = "Done"
  /\ UNCHANGED <<DeviceTreeAddress, Fdt, FdtSize, FdtPages, NewBase, NewFdt,
                 pool, hobs, Compatible, Node, restarts, calls>>

Next ==
  \/ CheckPointer
  \/ CheckHeader
  \/ Allocate
  \/ OpenInto
  \/ BuildGuidHob
  \/ BuildFvHob
  \/ ScanPcie
  \/ LoopBody
  \/ LoopExit
  \/ AddFixed
  \/ ScanSd
  \/ Return

Spec == Init /\ [][Next]_vars

(***************************************************************************)
(* Type invariant.                                                         *)
(***************************************************************************)
TypeOK ==
  /\ pc \in {"NotStarted", "CheckHeader", "Allocate", "OpenInto",
             "BuildGuidHob", "BuildFvHob", "ScanPcie", "Loop", "AddFixed",
             "ScanSd", "Return", "Done", "Failed"}
  /\ Status \in {NoStatus, EFI_SUCCESS, EFI_UNSUPPORTED}
  /\ restarts \in 0..MaxRestarts
  /\ Len(pool) <= 1

(***************************************************************************)
(* Vocabulary of the properties.                                           *)
(***************************************************************************)
Mmio(base, size) ==
  ResourceDescriptorHob("EFI_RESOURCE_MEMORY_MAPPED_IO", MmioAttributes,
                        base, size)

PageAligned(v) == v[7] % 16 = 0 /\ v[8] = 0

RECURSIVE Incr(_, _)
Incr(v, i) ==
  IF i = 0 THEN v
  ELSE IF v[i] = 255 THEN Incr([v EXCEPT ![i] = 0], i - 1)
  ELSE [v EXCEPT ![i] = v[i] + 1]

\* The page that starts 4096 bytes above the page v lies in, modulo 2^64.
NextPage(v) ==
  IF v[7] \div 16 = 15
  THEN Incr([v EXCEPT ![7] = 0, ![8] = 0], 6)
  ELSE [v EXCEPT ![7] = ((v[7] \div 16) + 1) * 16, ![8] = 0]

\* v rounded up to a multiple of the page size in 64-bit arithmetic.
RoundUp64(v) == IF PageAligned(v) THEN v ELSE NextPage(v)

\* Rounding v up leaves the 64-bit range.
RoundingOverflows(v) ==
  /\ ~PageAligned(v)
  /\ \A i \in 1..6 : v[i] = 255
  /\ v[7] \div 16 = 15

\* The smallest multiple of the page size that is >= v, as a 9-byte number.
SmallestMultipleGeq(v) ==
  IF RoundingOverflows(v) THEN <<1>> \o [i \in 1..8 |-> 0]
  ELSE <<0>> \o RoundUp64(v)

Compatibles == {PcieCompatible, SdCompatible}

\* The scan for compatible has returned to PlatformPeimInitialization.
ScanDone(compatible) ==
  IF compatible = PcieCompatible
  THEN \/ pc \in {"AddFixed", "ScanSd", "Return", "Done"}
       \/ pc = "Loop" /\ Compatible = SdCompatible
  ELSE pc \in {"Return", "Done"}

\* Offsets of the nodes matching compatible, in traversal order.
MatchOffsets(compatible) ==
  {o \in 0 .. (Len(Fdt.nodes) - 1) : compatible \in Fdt.nodes[o + 1].compatible}

RegWords(o) == Fdt.nodes[o + 1].reg.words

RegPresent(o) == Fdt.nodes[o + 1].reg.present

CallsOf(compatible) ==
  SelectSeq(calls, LAMBDA c : c.Compatible = compatible)

NodeCalls(compatible, o) ==
  SelectSeq(calls, LAMBDA c : c.Compatible = compatible /\ c.Node = o)

\* The records the calls cs left in the HOB list.
HobsOf(cs) == [i \in 1..Len(cs) |-> hobs[cs[i].after]]

ScanHobs(compatible) == HobsOf(CallsOf(compatible))

NodeHobs(compatible, o) == HobsOf(NodeCalls(compatible, o))

\* The matching nodes of the tree as a sequence, in traversal order.
MatchingNodes(compatible) ==
  SelectSeq(Fdt.nodes, LAMBDA n : compatible \in n.compatible)

\* Every later matching node with a well-formed reg got its records.
LaterNodesEmitted(compatible, o) ==
  \A q \in MatchOffsets(compatible) :
    (q > o /\ RegPresent(q) /\ Len(RegWords(q)) \in {2, 4, 5})
      => /\ NodeHobs(compatible, q) # <<>>
         /\ NodeHobs(compatible, q)[1]
              = Mmio(RegWords(q)[1], RoundUp64(RegWords(q)[2]))

ShortReg(o) == RegPresent(o) /\ Len(RegWords(o)) \in {1, 3}

(***************************************************************************)
(* C1: a scan that meets a matching node whose reg holds exactly 1 or 3    *)
(* words emits no record for that node, and still emits the records of     *)
(* every later matching node.  The code emits records for such a node.     *)
(***************************************************************************)
C1_ShortRegEmitsNothing ==
  \A compatible \in Compatibles :
    \A o \in MatchOffsets(compatible) :
      ShortReg(o) =>
        /\ NodeCalls(compatible, o) = <<>>
        /\ ScanDone(compatible) => LaterNodesEmitted(compatible, o)

(***************************************************************************)
(* C2: AddIoMemoryBaseSizeHob fails, emitting nothing, for every size      *)
(* whose rounding up to the page size exceeds 2^64 - 1.  The code emits a  *)
(* record with the wrapped size.                                           *)
(***************************************************************************)
C2_OverflowFails ==
  \A i \in 1..Len(calls) :
    RoundingOverflows(calls[i].MemorySize) => calls[i].after = calls[i].before

(***************************************************************************)
(* C3: every record emitted by AddIoMemoryBaseSizeHob has the input base,  *)
(* kind memory-mapped I/O, and as its size the smallest multiple of the    *)
(* page size that is >= the input size.  The code wraps modulo 2^64.       *)
(***************************************************************************)
C3_SizeIsSmallestMultiple ==
  \A i \in 1..Len(calls) :
    /\ calls[i].after = calls[i].before + 1
    /\ hobs[calls[i].after].ResourceType = "EFI_RESOURCE_MEMORY_MAPPED_IO"
    /\ hobs[calls[i].after].PhysicalStart = calls[i].MemoryBase
    /\ <<0>> \o hobs[calls[i].after].ResourceLength
         = SmallestMultipleGeq(calls[i].MemorySize)

(***************************************************************************)
(* C4: with a NULL tree pointer or a tree failing header validation the    *)
(* phase returns EFI_UNSUPPORTED, the HOB list stays empty and no pages    *)
(* are allocated.                                                          *)
(***************************************************************************)
C4_InvalidInputFails ==
  (DeviceTreeAddress = NULL \/ fdt_check_header(Fdt) # 0) =>
    /\ pc \in {"NotStarted", "CheckHeader", "Failed"}
    /\ pc = "Failed" => Status = EFI_UNSUPPORTED
    /\ pc # "Failed" => Status = NoStatus
    /\ hobs = <<>>
    /\ pool = <<>>

C4_Witness ==
  /\ pc = "Failed"
  /\ DeviceTreeAddress # NULL
  /\ fdt_check_header(Fdt) = 0 - FDT_ERR_BADMAGIC
  /\ Status = EFI_UNSUPPORTED

(***************************************************************************)
(* C5: when the page allocation fails or the GUID HOB announcing the       *)
(* relocated tree cannot be built, the phase returns failure and the HOB   *)
(* list holds no announcement, no firmware-volume record and no resource   *)
(* record.                                                                 *)
(***************************************************************************)
C5_FailureLeavesNoRecords ==
  (pc = "Failed" /\ DeviceTreeAddress # NULL /\ fdt_check_header(Fdt) = 0) =>
    /\ Status = EFI_UNSUPPORTED
    /\ \A i \in 1..Len(hobs) :
         hobs[i].type \notin {"GUID_EXTENSION", "FV", "RESOURCE_DESCRIPTOR"}

C5_Witness ==
  /\ pc = "Failed"
  /\ fdt_check_header(Fdt) = 0
  /\ NewBase # NULL
  /\ Len(pool) = 1

(***************************************************************************)
(* C6: a successful run leaves in the HOB list, in this order and nothing  *)
(* else: the relocated-tree announcement, the firmware-volume record, the  *)
(* records of the host-bridge scan, the fixed record {0xC0000000,          *)
(* 0x40000000}, the records of the storage scan; for the tree of the       *)
(* end-to-end example the resource records are exactly the four listed.    *)
(***************************************************************************)
ExampleNodes ==
  <<[compatible |-> {PcieCompatible},
     reg |-> RegOf(<<W_4000000000, W_10000000, W_5000000000, W_1000000>>)],
    [compatible |-> {SdCompatible},
     reg |-> RegOf(<<W_6000000000, W_1000>>)]>>

C6_SuccessOrder ==
  pc = "Done" =>
    /\ Status = EFI_SUCCESS
    /\ hobs = <<GuidHob("gFdtHobGuid", NewBase),
                FvHob("PcdRiscVDxeFvBase", "PcdRiscVDxeFvSize")>>
              \o ScanHobs(PcieCompatible)
              \o <<Mmio(<<0, 0, 0, 0, 192, 0, 0, 0>>,
                        <<0, 0, 0, 0, 64, 0, 0, 0>>)>>
              \o ScanHobs(SdCompatible)
    /\ \A i \in 1..Len(calls) : calls[i].after = 2 + i
    /\ \A i, j \in 1..Len(calls) :
         (calls[i].Compatible = PcieCompatible
            /\ calls[j].Compatible # PcieCompatible) => i < j
    /\ Fdt.nodes = ExampleNodes =>
         SubSeq(hobs, 3, Len(hobs))
           = <<Mmio(<<0, 0, 0, 64, 0, 0, 0, 0>>, <<0, 0, 0, 0, 16, 0, 0, 0>>),
               Mmio(<<0, 0, 0, 80, 0, 0, 0, 0>>, <<0, 0, 0, 0, 1, 0, 0, 0>>),
               Mmio(<<0, 0, 0, 0, 192, 0, 0, 0>>, <<0, 0, 0, 0, 64, 0, 0, 0>>),
               Mmio(<<0, 0, 0, 96, 0, 0, 0, 0>>, <<0, 0, 0, 0, 0, 0, 16, 0>>)>>

C6_Witness ==
  /\ pc = "Done"
  /\ Fdt.nodes = ExampleNodes
  /\ Len(hobs) = 6

(***************************************************************************)
(* C7: for a tree with N nodes matching the scanned compatible string,     *)
(* each with a 2-word reg, a completed scan has emitted exactly N records  *)
(* in traversal order, the i-th with the host-order base of the i-th node  *)
(* and its size rounded up to the page size (in 64-bit arithmetic).        *)
(***************************************************************************)
AllTwoWords(compatible) ==
  \A o \in MatchOffsets(compatible) : RegPresent(o) /\ Len(RegWords(o)) = 2

C8_TwoRegions ==
  \A compatible \in Compatibles :
    ScanDone(compatible) =>
      \A o \in MatchOffsets(compatible) :
        (RegPresent(o) /\ Len(RegWords(o)) >= 4) =>
          /\ NodeHobs(compatible, o)
               = <<Mmio(RegWords(o)[1], RoundUp64(RegWords(o)[2])),
                   Mmio(RegWords(o)[3], RoundUp64(RegWords(o)[4]))>>
          /\ NodeCalls(compatible, o)[2].after
               = NodeCalls(compatible, o)[1].after + 1

C8_Witness ==
  /\ pc = "Done"
  /\ \E o \in MatchOffsets(SdCompatible) :
       /\ Len(RegWords(o)) = 5
       /\ Len(NodeHobs(SdCompatible, o)) = 2
  /\ \E o \in MatchOffsets(PcieCompatible) :
       /\ Len(RegWords(o)) = 4
       /\ Len(NodeHobs(PcieCompatible, o)) = 2

(***************************************************************************)
(* C9: a matching node without a reg property gets no record and causes    *)
(* no failure: a completed scan has emitted the records of every later     *)
(* matching node, the phase never fails once scanning began, and it ends   *)
(* with EFI_SUCCESS.                                                       *)
(***************************************************************************)
C9_NoRegSkipped ==
  /\ \A compatible \in Compatibles :
       \A o \in MatchOffsets(compatible) :
         ~RegPresent(o) =>
           /\ NodeCalls(compatible, o) = <<>>
           /\ ScanDone(compatible) => LaterNodesEmitted(compatible, o)
  /\ pc = "Failed" => Compatible = NoCompatible
  /\ pc = "Done" => Status = EFI_SUCCESS

C9_Witness ==
  /\ pc = "Done"
  /\ Status = EFI_SUCCESS
  /\ Len(Fdt.nodes) = 2
  /\ Fdt.nodes[1] = [compatible |-> {SdCompatible}, reg |-> RegAbsent]
  /\ Fdt.nodes[2].compatible = {SdCompatible}
  /\ Len(NodeHobs(SdCompatible, 1)) = 1
  /\ Len(ScanHobs(SdCompatible)) = 1

(***************************************************************************)
(* C10: relocation makes one allocation, of ceil(S / page size) pages for  *)
(* a tree of declared total size S, and the copy of the tree in it         *)
(* declares the allocation's byte size as its total size.                  *)
(***************************************************************************)
C10_RelocationSize ==
  /\ Len(pool) <= 1
  /\ (pc \notin {"NotStarted", "CheckHeader", "Allocate"} /\ NewBase # NULL) =>
       /\ Len(pool) = 1
       /\ pool[1].base = NewBase
       /\ pool[1].pages * EFI_PAGE_SIZE >= Fdt.header.totalsize
       /\ (pool[1].pages - 1) * EFI_PAGE_SIZE < Fdt.header.totalsize
  /\ pc \in {"BuildGuidHob", "BuildFvHob", "ScanPcie", "Loop", "AddFixed",
             "ScanSd", "Return", "Done"} =>
       NewFdt.state \in {"tree", "undefined"}
  /\ NewFdt.state = "tree" =>
       /\ NewFdt.totalsize = pool[1].pages * EFI_PAGE_SIZE
       /\ NewFdt.nodes = Fdt.nodes

C10_Witness ==
  /\ pc = "BuildGuidHob"
  /\ Fdt.header.totalsize = 4097
  /\ pool = <<[base |-> NewBase, pages |-> 2]>>
  /\ NewFdt.state = "tree"
  /\ NewFdt.totalsize = 8192

(***************************************************************************)
(* C11: the HOB list never holds more than one relocated-tree              *)
(* announcement, every firmware-volume or resource record comes after it,  *)
(* and a run that returned success holds exactly one, whose value is the   *)
(* address of the fresh allocation and not the pointer handed in.          *)
(***************************************************************************)
Announcements ==
  {i \in 1..Len(hobs) :
     hobs[i].type = "GUID_EXTENSION" /\ hobs[i].Name = "gFdtHobGuid"}

C11_SingleAnnouncement ==
  /\ Cardinality(Announcements) <= 1
  /\ \A i \in 1..Len(hobs) :
       hobs[i].type \in {"FV", "RESOURCE_DESCRIPTOR"} =>
         \E j \in Announcements : j < i
  /\ pc = "Done" =>
       /\ Status = EFI_SUCCESS
       /\ Cardinality(Announcements) = 1
       /\ \A j \in Announcements :
            /\ hobs[j].Data = pool[1].base
            /\ hobs[j].Data # DeviceTreeAddress
            /\ hobs[j].Data # NULL

C11_Witness ==
  /\ pc = "Done"
  /\ Status = EFI_SUCCESS
  /\ Announcements = {1}
  /\ hobs[1].Data = NewBase
  /\ Len(hobs) >= 4

(***************************************************************************)
(* C12: every scan terminates, whatever the lookup returns: an iteration   *)
(* of the loop handles a node (never an error code) and the next lookup    *)
(* yields a node further on or ends the loop, so no node is handled twice. *)
(* The code leaves the loop only on -FDT_ERR_NOTFOUND; on any other error  *)
(* code it runs the body and looks up again from the first node.           *)
(***************************************************************************)
C12_ScanTerminates ==
  [][(pc = "Loop" /\ pc' = "Loop") =>
       /\ Node >= 0
       /\ Node' < 0 \/ Node' > Node]_vars

(***************************************************************************)
(* C13: the phase runs NotStarted, Relocating, AnnouncingFirmwareVolume,   *)
(* ScanningDevices, Done in this order, each once; the first failing step  *)
(* moves it to Failed, after which nothing more is done and the result is  *)
(* failure; the result is either success or failure.  The code does not    *)
(* notice a failing copy of the tree (C18) and carries on.                 *)
(***************************************************************************)
Phase(p) ==
  CASE p = "NotStarted" -> "NotStarted"
    [] p \in {"CheckHeader", "Allocate", "OpenInto", "BuildGuidHob"}
         -> "Relocating"
    [] p = "BuildFvHob" -> "AnnouncingFirmwareVolume"
    [] p \in {"ScanPcie", "Loop", "AddFixed", "ScanSd", "Return"}
         -> "ScanningDevices"
    [] p = "Done" -> "Done"
    [] p = "Failed" -> "Failed"

Rank(ph) ==
  CASE ph = "NotStarted" -> 0
    [] ph = "Relocating" -> 1
    [] ph = "AnnouncingFirmwareVolume" -> 2
    [] ph = "ScanningDevices" -> 3
    [] ph = "Done" -> 4
    [] ph = "Failed" -> 5

\* A step moves to the next phase, stays in its phase, or fails; Done and
\* Failed are final.
PhaseStep ==
  /\ pc \in {"Done", "Failed"} => UNCHANGED vars
  /\ \/ Phase(pc') = Phase(pc)
     \/ Rank(Phase(pc')) = Rank(Phase(pc)) + 1 /\ Phase(pc') # "Failed"
     \/ Phase(pc') = "Failed" /\ Phase(pc) \in {"NotStarted", "Relocating"}

\* A step of the phase has failed.
StepFailed ==
  \/ pc # "NotStarted" /\ DeviceTreeAddress = NULL
  \/ pc \notin {"NotStarted", "CheckHeader"} /\ fdt_check_header(Fdt) # 0
  \/ pc \notin {"NotStarted", "CheckHeader", "Allocate"} /\ NewBase = NULL
  \/ NewFdt.state = "undefined"

TwoValuedResult ==
  /\ pc = "Done" => Status = EFI_SUCCESS
  /\ pc = "Failed" => Status = EFI_UNSUPPORTED
  /\ pc \notin {"Done", "Failed"} => Status = NoStatus

\* The parts of C13 the code satisfies.
PhaseOrderHolds == [][PhaseStep]_vars /\ []TwoValuedResult

C13_SequentialPhases ==
  /\ [][PhaseStep]_vars
  /\ [](StepFailed => pc = "Failed")
  /\ []TwoValuedResult

(***************************************************************************)
(* C14: a successful run has emitted exactly one fixed record {0xC0000000, *)
(* 0x40000000}, whatever the tree holds; for a tree without a node         *)
(* matching either compatible string the run still succeeds and the fixed  *)
(* record is the only resource record of the HOB list.                     *)
(***************************************************************************)
FixedCalls == SelectSeq(calls, LAMBDA c : c.Compatible = NoCompatible)

FixedRecord ==
  Mmio(<<0, 0, 0, 0, 192, 0, 0, 0>>, <<0, 0, 0, 0, 64, 0, 0, 0>>)

ResourceHobs == SelectSeq(hobs, LAMBDA h : h.type = "RESOURCE_DESCRIPTOR")

NoMatch ==
  MatchOffsets(PcieCompatible) = {} /\ MatchOffsets(SdCompatible) = {}

C14_OneFixedRecord ==
  /\ Len(FixedCalls) <= 1
  /\ pc = "Done" =>
       /\ Status = EFI_SUCCESS
       /\ Len(FixedCalls) = 1
       /\ hobs[FixedCalls[1].after] = FixedRecord
       /\ hobs[FixedCalls[1].after - 1]
            = IF CallsOf(PcieCompatible) = <<>>
              THEN FvHob("PcdRiscVDxeFvBase", "PcdRiscVDxeFvSize")
              ELSE ScanHobs(PcieCompatible)[Len(CallsOf(PcieCompatible))]
       /\ NoMatch => ResourceHobs = <<FixedRecord>>
  /\ (NoMatch /\ Phase(pc) = "ScanningDevices") => Status = NoStatus

C14_Witness ==
  /\ pc = "Done"
  /\ Status = EFI_SUCCESS
  /\ NoMatch
  /\ Len(Fdt.nodes) = 2
  /\ ResourceHobs = <<FixedRecord>>
  /\ Len(hobs) = 3

(***************************************************************************)
(* C15: the two scans are independent: with the storage scan run before    *)
(* the host-bridge scan the phase returns the same status and the HOB list *)
(* holds the same resource records.  The records are the same ones, each   *)
(* as often, but they stand in another order in the HOB list.              *)
(***************************************************************************)
RECURSIVE AddPairs(_, _)
AddPairs(store, pairs) ==
  IF pairs = <<>> THEN store
  ELSE AddPairs(AddIoMemoryBaseSizeHob(store, Head(pairs).MemoryBase,
                                       Head(pairs).MemorySize),
                Tail(pairs))

\* The HOB list a scan that returns leaves, started at node with store;
\* oobs[o] are the bytes behind the reg property of node o.
RECURSIVE ScanFrom(_, _, _, _)
ScanFrom(store, node, compatible, oobs) ==
  IF node < 0 THEN store
  ELSE ScanFrom(AddPairs(store, RegPairs(fdt_getprop(Fdt, node), oobs[node])),
                fdt_node_offset_by_compatible(Fdt, node, compatible),
                compatible, oobs)

WholeScan(store, compatible, oobs) ==
  ScanFrom(store, fdt_node_offset_by_compatible(Fdt, -1, compatible),
           compatible, oobs)

\* The resource records of a run that scans for first, then for second.
RunInOrder(first, second, oobs) ==
  WholeScan(AddIoMemoryBaseSizeHob(WholeScan(<<>>, first, oobs),
                                   FixedBase, FixedSize),
            second, oobs)

OobChoices == [0 .. (Len(Fdt.nodes) - 1) -> OobWords]

Count(seq, r) == Cardinality({i \in 1..Len(seq) : seq[i] = r})

SameRecords(a, b) ==
  /\ Len(a) = Len(b)
  /\ \A i \in 1..Len(a) : Count(a, a[i]) = Count(b, a[i])

IsPrefix(a, b) == Len(a) <= Len(b) /\ SubSeq(b, 1, Len(a)) = a

C16_AppendOnly == [][IsPrefix(hobs, hobs')]_vars

C16_Witness ==
  /\ pc = "Done"
  /\ Len(ResourceHobs) >= 4
  /\ Len(hobs) = Len(ResourceHobs) + 2

(***************************************************************************)
(* C17: no step of the phase changes the buffer handed in, on success or   *)
(* on failure; the relocation writes into the fresh allocation only, which *)
(* lies elsewhere, and both scans read their nodes from the buffer handed  *)
(* in, also when the copy is unusable.                                     *)
(***************************************************************************)
ReadFromOriginal ==
  \A i \in 1..Len(calls) :
    calls[i].Node >= 0 =>
      /\ calls[i].Compatible \in Fdt.nodes[calls[i].Node + 1].compatible
      /\ RegPresent(calls[i].Node)
      /\ RegWords(calls[i].Node) # <<>> =>
           \E k \in {1, 3} :
             /\ k <= Len(RegWords(calls[i].Node))
             /\ calls[i].MemoryBase = RegWords(calls[i].Node)[k]

FreshAllocation ==
  /\ \A i \in 1..Len(pool) : pool[i].base \notin {NULL, DeviceTreeAddress}
  /\ NewFdt.state # "none" =>
       /\ NewBase \notin {NULL, DeviceTreeAddress}
       /\ \E i \in 1..Len(pool) : pool[i].base = NewBase

C17_OriginalUntouched ==
  /\ [][Fdt' = Fdt /\ DeviceTreeAddress' = DeviceTreeAddress]_vars
  /\ []FreshAllocation
  /\ []ReadFromOriginal

C17_Witness ==
  /\ pc = "Done"
  /\ NewFdt.state = "undefined"
  /\ NewFdt.nodes # Fdt.nodes
  /\ \E i \in 1..Len(calls) : calls[i].Node = 1

(***************************************************************************)
(* C18: whenever the HOB list holds the relocated-tree announcement, the   *)
(* copy of the tree into the announced allocation has succeeded, and the   *)
(* phase never returns success after a failed copy.  The code ignores the  *)
(* result of fdt_open_into.                                                *)
(***************************************************************************)
C18_AnnouncedCopySucceeded ==
  /\ Announcements # {} => NewFdt.state = "tree"
  /\ Status = EFI_SUCCESS => NewFdt.state = "tree"

====
